---- MODULE Spec2Model ----
(***************************************************************************)
(* A model of DocumentRegistry (packages/common/src/compiler/              *)
(* DocumentRegistry.ts): the map from standardized file path to the        *)
(* current source file, the ordered document caches that are asked before  *)
(* the parser, and the version policy of createOrUpdateSourceFile and      *)
(* acquireDocument.                                                        *)
(*                                                                         *)
(* Strings the code converts (versions, file names) are sequences of       *)
(* one-character strings, so that parseInt, toString and the path          *)
(* standardization are computed rather than assumed.                       *)
(***************************************************************************)
EXTENDS Integers, Sequences, FiniteSets

VARIABLES
    sourceFileCacheByFilePath, \* Map<StandardizedFilePath, ts.SourceFile>
    documentCaches,            \* FileSystemSpecificDocumentCache[] | undefined
    parserCalls,               \* invocations of createCompilerSourceFile so far
    calls,                     \* public operations called so far
    lastCall,                  \* the last public operation: arguments and outcome
    previousCall,              \* the public operation before the last
    history                    \* per path: the trees returned since the path last had no entry

vars == <<sourceFileCacheByFilePath, documentCaches, parserCalls, calls, lastCall, previousCall,
          history>>

(***************************************************************************)
(* Bounds.                                                                 *)
(***************************************************************************)
MaxCalls == 3

(***************************************************************************)
(* Strings and numbers.                                                    *)
(***************************************************************************)
DigitChars == <<"0", "1", "2", "3", "4", "5", "6", "7", "8", "9">>

IsDigit(c) == \E i \in 1..Len(DigitChars) : DigitChars[i] = c

DigitValue(c) == (CHOOSE i \in 1..Len(DigitChars) : DigitChars[i] = c) - 1

NaN == [nan |-> TRUE, value |-> 0]

Number(n) == [nan |-> FALSE, value |-> n]

\* The longest prefix of s made of decimal digits.
RECURSIVE DigitPrefix(_)
DigitPrefix(s) ==
    IF s = <<>> \/ ~IsDigit(Head(s)) THEN <<>>
    ELSE <<Head(s)>> \o DigitPrefix(Tail(s))

RECURSIVE DigitsToNat(_, _)
DigitsToNat(s, acc) ==
    IF s = <<>> THEN acc
    ELSE DigitsToNat(Tail(s), acc * Len(DigitChars) + DigitValue(Head(s)))

RECURSIVE SkipSpaces(_)
SkipSpaces(s) == IF s # <<>> /\ Head(s) = " " THEN SkipSpaces(Tail(s)) ELSE s

\* parseInt(s, 10): leading white space, an optional sign, then the digits up
\* to the first character that is none; NaN when there is no digit.
parseInt(s) ==
    LET t == SkipSpaces(s)
        signed == t # <<>> /\ Head(t) \in {"-", "+"}
        body == IF signed THEN Tail(t) ELSE t
        digits == DigitPrefix(body)
        magnitude == DigitsToNat(digits, 0)
    IN  IF digits = <<>> THEN NaN
        ELSE IF signed /\ Head(t) = "-" THEN Number(0 - magnitude)
        ELSE Number(magnitude)

\* x || 0 on a number: NaN and 0 are falsy.
OrZero(x) == IF x.nan \/ x.value = 0 THEN 0 ELSE x.value

RECURSIVE NatToString(_)
NatToString(n) ==
    IF n < Len(DigitChars) THEN <<DigitChars[n + 1]>>
    ELSE NatToString(n \div Len(DigitChars)) \o <<DigitChars[(n % Len(DigitChars)) + 1]>>

\* Number.prototype.toString() of an integer.
toString(n) == IF n < 0 THEN <<"-">> \o NatToString(0 - n) ELSE NatToString(n)

(***************************************************************************)
(* File names, snapshots, settings, versions: the inputs of the calls.     *)
(***************************************************************************)
PathA == <<"/", "a">>

PathB == <<"/", "b">>

\* StandardizedFilePath values: what createOrUpdateSourceFile and
\* removeSourceFile are called with.
StandardizedFilePaths == {PathA, PathB}

\* File names as the compiler service passes them to acquireDocument.
FileNames == {PathA, <<"\\", "a">>, <<"b">>}

TextOne == "({x, y} = z);"

TextTwo == "({x} = z);"

ScriptSnapshots == {TextOne, TextTwo}

ScriptTargets == {"ES5", "ES2015"}

ScriptKinds == {"TS", "undefined"}

CompilerOptions == [target : ScriptTargets]

\* Version strings a caller passes to acquireDocument: "", "0", "1".
Versions == {<<>>, <<"0">>, <<"1">>}

\* Bucket keys a compiler service may pass to the WithKey methods.
BucketKeys == {"defaultKey", "otherKey"}

\* What createCompilerSourceFile may do: return a tree or throw.
ParserOutcomes == {"ok", "ParseFailure"}

initialVersion == <<"0">>

(***************************************************************************)
(* Source files. id stands for the object's identity: two source files are *)
(* the same instance exactly when their ids are equal.                     *)
(***************************************************************************)
UndefinedVersion == [defined |-> FALSE, string |-> <<>>]

StringVersion(s) == [defined |-> TRUE, string |-> s]

SourceFile(id, origin, fileName, text, target, version, scriptKind) ==
    [id |-> id, origin |-> origin, fileName |-> fileName, text |-> text,
     languageVersion |-> target, version |-> version, scriptKind |-> scriptKind]

\* undefined, where a source file is expected.
NoSourceFile == SourceFile(0, "none", <<>>, "", "", UndefinedVersion, "")

(***************************************************************************)
(* Document caches. A cache holds records keyed by file path, text, target *)
(* and script kind, each with its source file.                             *)
(***************************************************************************)
CacheRecord(id, fileName, text, target, version, scriptKind) ==
    [fileName |-> fileName, text |-> text, target |-> target, scriptKind |-> scriptKind,
     sourceFile |-> SourceFile(id, "cache", fileName, text, target, version, scriptKind)]

CacheOne == {CacheRecord(0 - 1, PathA, TextOne, "ES5", StringVersion(<<"-", "1">>), "TS")}

CacheTwo ==
    {CacheRecord(0 - 2, PathA, TextOne, "ES5", UndefinedVersion, "TS"),
     CacheRecord(0 - 3, PathB, TextOne, "ES5", StringVersion(<<"1">>), "TS")}

\* The documentCaches field after construction: undefined when the
\* constructor got no caches, else the caches in the order given.
CacheLists ==
    {[defined |-> FALSE, caches |-> <<>>],
     [defined |-> TRUE, caches |-> <<CacheOne, CacheTwo>>],
     [defined |-> TRUE, caches |-> <<CacheTwo, CacheOne>>]}

getDocumentIfMatch(cache, fileName, scriptSnapshot, scriptTarget, scriptKind) ==
    LET matching == {r \in cache : /\ r.fileName = fileName
                                   /\ r.text = scriptSnapshot
                                   /\ r.target = scriptTarget
                                   /\ r.scriptKind = scriptKind}
    IN  IF matching = {} THEN NoSourceFile ELSE (CHOOSE r \in matching : TRUE).sourceFile

\* createCompilerSourceFile(fileName, scriptSnapshot, target, version, true, scriptKind):
\* a new object on every call, carrying the version it was given.
createCompilerSourceFile(id, fileName, scriptSnapshot, scriptTarget, version, scriptKind) ==
    SourceFile(id, "parser", fileName, scriptSnapshot, scriptTarget, StringVersion(version), scriptKind)

RECURSIVE ReplaceBackslashes(_)
ReplaceBackslashes(s) ==
    IF s = <<>> THEN <<>>
    ELSE <<IF Head(s) = "\\" THEN "/" ELSE Head(s)>> \o ReplaceBackslashes(Tail(s))

\* transactionalFileSystem.getStandardizedAbsolutePath(fileName), with "/"
\* as the current directory.
getStandardizedAbsolutePath(fileName) ==
    LET slashed == ReplaceBackslashes(fileName)
    IN  IF slashed # <<>> /\ Head(slashed) = "/" THEN slashed ELSE <<"/">> \o slashed

(***************************************************************************)
(* DocumentRegistry: the version helpers.                                  *)
(***************************************************************************)
\* (sourceFile as any).version || "0": undefined and "" are falsy.
getSourceFileVersion(sourceFile) ==
    IF ~sourceFile.version.defined \/ sourceFile.version.string = <<>>
    THEN <<"0">>
    ELSE sourceFile.version.string

\* A slip: "+ 1" applied to the version string, which appends a character.
getNextSourceFileVersionConcatenated(sourceFile) ==
    getSourceFileVersion(sourceFile) \o <<"1">>

\* A slip: the current version is returned, not the next.
getNextSourceFileVersionSame(sourceFile) ==
    toString(OrZero(parseInt(getSourceFileVersion(sourceFile))))

getNextSourceFileVersion(sourceFile) ==
    LET currentVersion == OrZero(parseInt(getSourceFileVersion(sourceFile)))
    IN  toString(currentVersion + 1)

(***************************************************************************)
(* DocumentRegistry.updateSourceFile.                                      *)
(***************************************************************************)
\* A slip: the loop does not stop at the first document, so the last wins.
RECURSIVE QueryDocumentCachesLastWins(_, _, _, _, _, _)
QueryDocumentCachesLastWins(cacheList, i, fileName, scriptSnapshot, scriptTarget, scriptKind) ==
    IF i > Len(cacheList) THEN [document |-> NoSourceFile, queried |-> <<>>]
    ELSE LET document == getDocumentIfMatch(cacheList[i], fileName, scriptSnapshot,
                                            scriptTarget, scriptKind)
             rest == QueryDocumentCachesLastWins(cacheList, i + 1, fileName, scriptSnapshot,
                                                 scriptTarget, scriptKind)
         IN  [document |-> IF rest.document # NoSourceFile THEN rest.document ELSE document,
              queried |-> <<i>> \o rest.queried]

\* A slip: a cache is asked for the file alone, whatever the snapshot.
RECURSIVE QueryDocumentCachesAnySnapshot(_, _, _, _, _, _)
QueryDocumentCachesAnySnapshot(cacheList, i, fileName, scriptSnapshot, scriptTarget, scriptKind) ==
    IF i > Len(cacheList) THEN [document |-> NoSourceFile, queried |-> <<>>]
    ELSE LET ofFile == {r \in cacheList[i] : r.fileName = fileName}
             rest == QueryDocumentCachesAnySnapshot(cacheList, i + 1, fileName, scriptSnapshot,
                                                    scriptTarget, scriptKind)
         IN  IF ofFile # {}
             THEN [document |-> (CHOOSE r \in ofFile : TRUE).sourceFile, queried |-> <<i>>]
             ELSE [document |-> rest.document, queried |-> <<i>> \o rest.queried]

\* The for loop over documentCaches from index i on: the first document
\* that is not null, and the indexes of the caches asked.
RECURSIVE QueryDocumentCaches(_, _, _, _, _, _)
QueryDocumentCaches(cacheList, i, fileName, scriptSnapshot, scriptTarget, scriptKind) ==
    IF i > Len(cacheList) THEN [document |-> NoSourceFile, queried |-> <<>>]
    ELSE LET document == getDocumentIfMatch(cacheList[i], fileName, scriptSnapshot,
                                            scriptTarget, scriptKind)
             rest == QueryDocumentCaches(cacheList, i + 1, fileName, scriptSnapshot,
                                         scriptTarget, scriptKind)
         IN  IF document # NoSourceFile
             THEN [document |-> document, queried |-> <<i>>]
             ELSE [document |-> rest.document, queried |-> <<i>> \o rest.queried]

\* A slip: the entry is dropped before the parser is called.
MapAfterParserThrewCleared(map, fileName) == [f \in DOMAIN map \ {fileName} |-> map[f]]

\* The map after the parser threw: line 145 is not reached.
MapAfterParserThrew(map, fileName) == map

\* A slip: an entry that is there is not replaced.
MapSetIfAbsent(map, fileName, sourceFile) ==
    [f \in DOMAIN map \cup {fileName} |-> IF f \in DOMAIN map THEN map[f] ELSE sourceFile]

\* A slip: the map is rebuilt with the one entry.
MapSetAlone(map, fileName, sourceFile) == [f \in {fileName} |-> sourceFile]

\* The map after sourceFileCacheByFilePath.set(fileName, sourceFile).
MapSet(map, fileName, sourceFile) ==
    [f \in DOMAIN map \cup {fileName} |-> IF f = fileName THEN sourceFile ELSE map[f]]

\* A slip: clear() for delete(fileName).
MapDeleteAll(map, fileName) == <<>>

\* A slip: the entry is kept.
MapDeleteNothing(map, fileName) == map

\* The map after sourceFileCacheByFilePath.delete(fileName).
MapDelete(map, fileName) == [f \in DOMAIN map \ {fileName} |-> map[f]]

\* A slip: the requested version is stamped on the record of a document cache.
updateSourceFileStamped(map, caches, nextId, fileName, compilationSettings, scriptSnapshot, version, scriptKind, parserOutcome) ==
    LET found == IF caches.defined
                 THEN QueryDocumentCaches(caches.caches, 1, fileName, scriptSnapshot,
                                          compilationSettings.target, scriptKind)
                 ELSE [document |-> NoSourceFile, queried |-> <<>>]
        newSourceFile == createCompilerSourceFile(nextId, fileName, scriptSnapshot,
                                                  compilationSettings.target, version, scriptKind)
        stamped == [found.document EXCEPT !.version = StringVersion(version)]
    IN  IF found.document # NoSourceFile
        THEN [map |-> MapSet(map, fileName, stamped), outcome |-> "returned",
              result |-> stamped, thrown |-> "", queried |-> found.queried,
              parsed |-> FALSE, parserVersion |-> <<>>, value |-> ""]
        ELSE IF parserOutcome = "ok"
        THEN [map |-> MapSet(map, fileName, newSourceFile), outcome |-> "returned",
              result |-> newSourceFile, thrown |-> "", queried |-> found.queried,
              parsed |-> TRUE, parserVersion |-> version, value |-> ""]
        ELSE [map |-> MapAfterParserThrew(map, fileName), outcome |-> "threw",
              result |-> NoSourceFile, thrown |-> parserOutcome, queried |-> found.queried,
              parsed |-> TRUE, parserVersion |-> version, value |-> ""]

\* The whole of updateSourceFile on the map `map` with `caches` registered;
\* parserOutcome is what createCompilerSourceFile does if it is reached and
\* nextId the identity of the object it would create.
updateSourceFile(map, caches, nextId, fileName, compilationSettings, scriptSnapshot, version, scriptKind, parserOutcome) ==
    LET found == IF caches.defined
                 THEN QueryDocumentCaches(caches.caches, 1, fileName, scriptSnapshot,
                                          compilationSettings.target, scriptKind)
                 ELSE [document |-> NoSourceFile, queried |-> <<>>]
        newSourceFile == createCompilerSourceFile(nextId, fileName, scriptSnapshot,
                                                  compilationSettings.target, version, scriptKind)
    IN  IF found.document # NoSourceFile
        THEN [map |-> MapSet(map, fileName, found.document), outcome |-> "returned",
              result |-> found.document, thrown |-> "", queried |-> found.queried,
              parsed |-> FALSE, parserVersion |-> <<>>, value |-> ""]
        ELSE IF parserOutcome = "ok"
        THEN [map |-> MapSet(map, fileName, newSourceFile), outcome |-> "returned",
              result |-> newSourceFile, thrown |-> "", queried |-> found.queried,
              parsed |-> TRUE, parserVersion |-> version, value |-> ""]
        ELSE [map |-> MapAfterParserThrew(map, fileName), outcome |-> "threw",
              result |-> NoSourceFile, thrown |-> parserOutcome, queried |-> found.queried,
              parsed |-> TRUE, parserVersion |-> version, value |-> ""]

(***************************************************************************)
(* The record of a call. op is the method whose body ran: updateDocument   *)
(* and the WithKey methods only call acquireDocument, so their calls are   *)
(* recorded as the acquireDocument call they make.                         *)
(***************************************************************************)
CallRecord(op, fileName, compilationSettings, scriptSnapshot, version, scriptKind, cached, materialized, r) ==
    [op |-> op, fileName |-> fileName, target |-> compilationSettings.target,
     scriptSnapshot |-> scriptSnapshot, version |-> version, scriptKind |-> scriptKind,
     cached |-> cached, materialized |-> materialized,
     outcome |-> r.outcome, result |-> r.result, thrown |-> r.thrown,
     queried |-> r.queried, parsed |-> r.parsed, parserVersion |-> r.parserVersion,
     value |-> r.value]

NoArguments == [target |-> ""]

NoCall == CallRecord("none", <<>>, NoArguments, "", <<>>, "", NoSourceFile, FALSE,
                     [outcome |-> "none", result |-> NoSourceFile, thrown |-> "",
                      queried |-> <<>>, parsed |-> FALSE, parserVersion |-> <<>>, value |-> ""])

\* What a call that returns nothing and touches neither cache nor parser leaves.
VoidResult == [outcome |-> "returned", result |-> NoSourceFile, thrown |-> "",
               queried |-> <<>>, parsed |-> FALSE, parserVersion |-> <<>>, value |-> ""]

\* The entry of the map for fileName, undefined when there is none.
MapGet(map, fileName) == IF fileName \in DOMAIN map THEN map[fileName] ELSE NoSourceFile

\* The history of a path after a call on it returned sourceFile.
Returned(h, fileName, op, source, sourceFile) ==
    [h EXCEPT ![fileName] = Append(@, [op |-> op, source |-> source,
                                       version |-> getSourceFileVersion(sourceFile)])]

Init ==
    /\ sourceFileCacheByFilePath = <<>>
    /\ documentCaches \in CacheLists
    /\ parserCalls = 0
    /\ calls = 0
    /\ lastCall = NoCall
    /\ previousCall = NoCall
    /\ history = [f \in StandardizedFilePaths |-> <<>>]

(***************************************************************************)
(* The public methods.                                                     *)
(***************************************************************************)
\* A slip: an entry whose text is the snapshot's is returned as it is.
createOrUpdateSourceFileIfChanged(fileName, compilationSettings, scriptSnapshot, scriptKind, parserOutcome) ==
    /\ calls < MaxCalls
    /\ LET sourceFile == MapGet(sourceFileCacheByFilePath, fileName)
           unchanged == sourceFile # NoSourceFile /\ sourceFile.text = scriptSnapshot
           version == IF sourceFile = NoSourceFile
                      THEN initialVersion
                      ELSE getNextSourceFileVersion(sourceFile)
           r == IF unchanged
                THEN [map |-> sourceFileCacheByFilePath, outcome |-> "returned",
                      result |-> sourceFile, thrown |-> "", queried |-> <<>>,
                      parsed |-> FALSE, parserVersion |-> <<>>, value |-> ""]
                ELSE updateSourceFile(sourceFileCacheByFilePath, documentCaches,
                                      parserCalls + 1, fileName, compilationSettings,
                                      scriptSnapshot, version, scriptKind, parserOutcome)
       IN  /\ sourceFileCacheByFilePath' = r.map
           /\ parserCalls' = IF r.parsed THEN parserCalls + 1 ELSE parserCalls
           /\ lastCall' = CallRecord("createOrUpdateSourceFile", fileName, compilationSettings,
                                     scriptSnapshot, <<>>, scriptKind, sourceFile, TRUE, r)
           /\ history' = IF r.outcome = "returned"
                         THEN Returned(history, fileName, "createOrUpdateSourceFile",
                                       IF unchanged THEN "map" ELSE r.result.origin, r.result)
                         ELSE history
    /\ previousCall' = lastCall
    /\ calls' = calls + 1
    /\ UNCHANGED documentCaches

createOrUpdateSourceFile(fileName, compilationSettings, scriptSnapshot, scriptKind, parserOutcome) ==
    /\ calls < MaxCalls
    /\ LET sourceFile == MapGet(sourceFileCacheByFilePath, fileName)
           version == IF sourceFile = NoSourceFile
                      THEN initialVersion
                      ELSE getNextSourceFileVersion(sourceFile)
           r == updateSourceFile(sourceFileCacheByFilePath, documentCaches, parserCalls + 1,
                                 fileName, compilationSettings, scriptSnapshot, version,
                                 scriptKind, parserOutcome)
       IN  /\ sourceFileCacheByFilePath' = r.map
           /\ parserCalls' = IF r.parsed THEN parserCalls + 1 ELSE parserCalls
           /\ lastCall' = CallRecord("createOrUpdateSourceFile", fileName, compilationSettings,
                                     scriptSnapshot, <<>>, scriptKind, sourceFile, TRUE, r)
           /\ history' = IF r.outcome = "returned"
                         THEN Returned(history, fileName, "createOrUpdateSourceFile",
                                       r.result.origin, r.result)
                         ELSE history
    /\ previousCall' = lastCall
    /\ calls' = calls + 1
    /\ UNCHANGED documentCaches

removeSourceFile(fileName) ==
    /\ calls < MaxCalls
    /\ sourceFileCacheByFilePath' = MapDelete(sourceFileCacheByFilePath, fileName)
    /\ lastCall' = CallRecord("removeSourceFile", fileName, NoArguments, "", <<>>, "",
                              MapGet(sourceFileCacheByFilePath, fileName), FALSE, VoidResult)
    /\ history' = [history EXCEPT ![fileName] = <<>>]
    /\ previousCall' = lastCall
    /\ calls' = calls + 1
    /\ UNCHANGED <<documentCaches, parserCalls>>

\* A slip: the version is not compared.
NeedsUpdateOnlyIfMissing(sourceFile, version) == sourceFile = NoSourceFile

\* A slip: every call materializes.
NeedsUpdateAlways(sourceFile, version) == TRUE

\* The condition of line 58: no entry, or an entry of another version.
NeedsUpdate(sourceFile, version) ==
    sourceFile = NoSourceFile \/ getSourceFileVersion(sourceFile) # version

acquireDocument(fileName, compilationSettings, scriptSnapshot, version, scriptKind, parserOutcome) ==
    /\ calls < MaxCalls
    /\ LET standardizedFilePath == getStandardizedAbsolutePath(fileName)
           sourceFile == MapGet(sourceFileCacheByFilePath, standardizedFilePath)
           update == NeedsUpdate(sourceFile, version)
           r == IF update
                THEN updateSourceFile(sourceFileCacheByFilePath, documentCaches, parserCalls + 1,
                                      standardizedFilePath, compilationSettings, scriptSnapshot,
                                      version, scriptKind, parserOutcome)
                ELSE [map |-> sourceFileCacheByFilePath, outcome |-> "returned",
                      result |-> sourceFile, thrown |-> "", queried |-> <<>>,
                      parsed |-> FALSE, parserVersion |-> <<>>, value |-> ""]
       IN  /\ sourceFileCacheByFilePath' = r.map
           /\ parserCalls' = IF r.parsed THEN parserCalls + 1 ELSE parserCalls
           /\ lastCall' = CallRecord("acquireDocument", standardizedFilePath, compilationSettings,
                                     scriptSnapshot, version, scriptKind, sourceFile, update, r)
           /\ history' = IF r.outcome = "returned"
                         THEN Returned(history, standardizedFilePath, "acquireDocument",
                                       IF update THEN r.result.origin ELSE "map", r.result)
                         ELSE history
    /\ previousCall' = lastCall
    /\ calls' = calls + 1
    /\ UNCHANGED documentCaches

updateDocument(fileName, compilationSettings, scriptSnapshot, version, scriptKind, parserOutcome) ==
    acquireDocument(fileName, compilationSettings, scriptSnapshot, version, scriptKind, parserOutcome)

\* A slip: the bucket key takes part in the lookup, as one more piece of the
\* version that is compared and recorded.
acquireDocumentWithKeyBucketed(fileName, path, compilationSettings, key, scriptSnapshot, version, scriptKind, parserOutcome) ==
    acquireDocument(fileName, compilationSettings, scriptSnapshot,
                    IF key = "defaultKey" THEN version ELSE version \o <<"k">>,
                    scriptKind, parserOutcome)

acquireDocumentWithKey(fileName, path, compilationSettings, key, scriptSnapshot, version, scriptKind, parserOutcome) ==
    acquireDocument(fileName, compilationSettings, scriptSnapshot, version, scriptKind, parserOutcome)

updateDocumentWithKey(fileName, path, compilationSettings, key, scriptSnapshot, version, scriptKind, parserOutcome) ==
    updateDocument(fileName, compilationSettings, scriptSnapshot, version, scriptKind, parserOutcome)

\* "defaultKey" as ts.DocumentRegistryBucketKey, whatever the settings.
BucketKeyFor(settings) == "defaultKey"

getKeyForCompilationSettings(settings) ==
    /\ calls < MaxCalls
    /\ lastCall' = CallRecord("getKeyForCompilationSettings", <<>>, NoArguments, "", <<>>, "",
                              NoSourceFile, FALSE,
                              [VoidResult EXCEPT !.value = BucketKeyFor(settings)])
    /\ previousCall' = lastCall
    /\ calls' = calls + 1
    /\ UNCHANGED <<sourceFileCacheByFilePath, documentCaches, parserCalls, history>>

\* A slip: a release evicts the entry.
MapAfterReleaseEvicted(map, fileName) == [f \in DOMAIN map \ {fileName} |-> map[f]]

\* The map after releaseDocument or releaseDocumentWithKey: both bodies are empty.
MapAfterRelease(map, fileName) == map

releaseDocument(fileName, compilationSettings) ==
    /\ calls < MaxCalls
    /\ sourceFileCacheByFilePath' = MapAfterRelease(sourceFileCacheByFilePath, fileName)
    /\ lastCall' = CallRecord("releaseDocument", fileName, NoArguments, "", <<>>, "",
                              NoSourceFile, FALSE, VoidResult)
    /\ previousCall' = lastCall
    /\ calls' = calls + 1
    /\ UNCHANGED <<documentCaches, parserCalls, history>>

releaseDocumentWithKey(path, key) ==
    /\ calls < MaxCalls
    /\ sourceFileCacheByFilePath' = MapAfterRelease(sourceFileCacheByFilePath, path)
    /\ lastCall' = CallRecord("releaseDocumentWithKey", path, NoArguments, "", <<>>, "",
                              NoSourceFile, FALSE, VoidResult)
    /\ previousCall' = lastCall
    /\ calls' = calls + 1
    /\ UNCHANGED <<documentCaches, parserCalls, history>>

\* A slip: reportStats returns an empty report.
ReportStatsResultEmpty ==
    [outcome |-> "returned", result |-> NoSourceFile, thrown |-> "", queried |-> <<>>,
     parsed |-> FALSE, parserVersion |-> <<>>, value |-> ""]

\* throw new errors.NotImplementedError()
ReportStatsResult == [VoidResult EXCEPT !.outcome = "threw", !.thrown = "NotImplementedError"]

reportStats ==
    /\ calls < MaxCalls
    /\ lastCall' = CallRecord("reportStats", <<>>, NoArguments, "", <<>>, "", NoSourceFile,
                              FALSE, ReportStatsResult)
    /\ previousCall' = lastCall
    /\ calls' = calls + 1
    /\ UNCHANGED <<sourceFileCacheByFilePath, documentCaches, parserCalls, history>>

(***************************************************************************)
(* The calls a compiler service makes, with arguments drawn from the sets  *)
(* of `inputs`.                                                            *)
(***************************************************************************)
NextOver(inputs) ==
    \/ \E fileName \in inputs.paths, compilationSettings \in [target : inputs.targets],
          scriptSnapshot \in inputs.snapshots, scriptKind \in inputs.kinds,
          parserOutcome \in inputs.outcomes :
            createOrUpdateSourceFile(fileName, compilationSettings, scriptSnapshot, scriptKind,
                                     parserOutcome)
    \/ \E fileName \in inputs.paths : removeSourceFile(fileName)
    \/ \E fileName \in inputs.fileNames, compilationSettings \in [target : inputs.targets],
          scriptSnapshot \in inputs.snapshots, version \in inputs.versions,
          scriptKind \in inputs.kinds, parserOutcome \in inputs.outcomes :
            acquireDocument(fileName, compilationSettings, scriptSnapshot, version, scriptKind,
                            parserOutcome)
    \/ \E fileName \in inputs.fileNames, compilationSettings \in [target : inputs.targets],
          scriptSnapshot \in inputs.snapshots, version \in inputs.versions,
          scriptKind \in inputs.kinds, parserOutcome \in inputs.outcomes :
            updateDocument(fileName, compilationSettings, scriptSnapshot, version, scriptKind,
                           parserOutcome)
    \/ \E fileName \in inputs.fileNames, path \in inputs.paths,
          compilationSettings \in [target : inputs.targets], key \in inputs.keys,
          scriptSnapshot \in inputs.snapshots, version \in inputs.versions,
          scriptKind \in inputs.kinds, parserOutcome \in inputs.outcomes :
            acquireDocumentWithKey(fileName, path, compilationSettings, key, scriptSnapshot,
                                   version, scriptKind, parserOutcome)
    \/ \E fileName \in inputs.fileNames, path \in inputs.paths,
          compilationSettings \in [target : inputs.targets], key \in inputs.keys,
          scriptSnapshot \in inputs.snapshots, version \in inputs.versions,
          scriptKind \in inputs.kinds, parserOutcome \in inputs.outcomes :
            updateDocumentWithKey(fileName, path, compilationSettings, key, scriptSnapshot,
                                  version, scriptKind, parserOutcome)
    \/ \E settings \in [target : inputs.targets] : getKeyForCompilationSettings(settings)
    \/ \E fileName \in inputs.fileNames, compilationSettings \in [target : inputs.targets] :
            releaseDocument(fileName, compilationSettings)
    \/ \E path \in inputs.paths, key \in inputs.keys : releaseDocumentWithKey(path, key)
    \/ reportStats

(***************************************************************************)
(* RealFileSystemHost. The host keeps no state of its own: each method     *)
(* makes one call of fs-extra, whose outcome is the environment's choice.  *)
(* A method that returns a promise is taken together with the callback     *)
(* that settles it.                                                        *)
(***************************************************************************)
\* The codes of the errors fs-extra reports: no such entry, permission
\* denied, no space left, is a directory, already exists.
ErrorCodes == {"ENOENT", "EACCES", "ENOSPC", "EISDIR", "EEXIST"}

HostPaths == {<<"/", "a">>, <<"/", "d">>}

\* An error object of fs-extra.
UnderlyingError(code, path) == [name |-> "Error", code |-> code, path |-> path]

\* No error: the callback's err is null, or nothing is thrown.
NoError == [name |-> "", code |-> "", path |-> <<>>]

\* What a call of fs-extra on `path` can end in.
UnderlyingOutcomes(path) == {NoError} \cup {UnderlyingError(code, path) : code \in ErrorCodes}

FileNotFoundError(path) == [name |-> "FileNotFoundError", code |-> "", path |-> path]

DirectoryNotFoundError(path) == [name |-> "DirectoryNotFoundError", code |-> "", path |-> path]

\* FileUtils.isNotExistsError(err): the error says the entry does not exist.
isNotExistsError(err) == err.code = "ENOENT"

getDirectoryNotFoundErrorIfNecessary(err, path) ==
    IF isNotExistsError(err) THEN DirectoryNotFoundError(path) ELSE err

\* A slip: every error is reported as file not found.
getFileNotFoundErrorAlways(err, path) == FileNotFoundError(path)

getFileNotFoundErrorIfNecessary(err, path) ==
    IF isNotExistsError(err) THEN FileNotFoundError(path) ELSE err

\* The record of a call of the host: err is what fs-extra reported, thrown
\* what the caller gets when the call fails.
HostCall(op, path, err, outcome, thrown) ==
    /\ calls < MaxCalls
    /\ lastCall' = [op |-> op, path |-> path, underlying |-> err, outcome |-> outcome,
                    thrown |-> thrown]
    /\ previousCall' = lastCall
    /\ calls' = calls + 1
    /\ UNCHANGED <<sourceFileCacheByFilePath, documentCaches, parserCalls, history>>

delete(path, err) ==
    IF err # NoError
    THEN HostCall("delete", path, err, "rejected", getFileNotFoundErrorIfNecessary(err, path))
    ELSE HostCall("delete", path, err, "resolved", NoError)

deleteSync(path, err) ==
    IF err # NoError
    THEN HostCall("deleteSync", path, err, "threw", getFileNotFoundErrorIfNecessary(err, path))
    ELSE HostCall("deleteSync", path, err, "returned", NoError)

readDirSync(dirPath, err) ==
    IF err # NoError
    THEN HostCall("readDirSync", dirPath, err, "threw",
                  getDirectoryNotFoundErrorIfNecessary(err, dirPath))
    ELSE HostCall("readDirSync", dirPath, err, "returned", NoError)

readFile(filePath, err) ==
    IF err # NoError
    THEN HostCall("readFile", filePath, err, "rejected",
                  getFileNotFoundErrorIfNecessary(err, filePath))
    ELSE HostCall("readFile", filePath, err, "resolved", NoError)

readFileSync(filePath, err) ==
    IF err # NoError
    THEN HostCall("readFileSync", filePath, err, "threw",
                  getFileNotFoundErrorIfNecessary(err, filePath))
    ELSE HostCall("readFileSync", filePath, err, "returned", NoError)

\* this.fs.writeFileSync(filePath, fileText): nothing is caught.
writeFileSync(filePath, err) ==
    IF err # NoError
    THEN HostCall("writeFileSync", filePath, err, "threw", err)
    ELSE HostCall("writeFileSync", filePath, err, "returned", NoError)

\* An error of mkdirpSync is thrown again unless its code is EEXIST.
mkdirSync(dirPath, err) ==
    IF err # NoError /\ err.code # "EEXIST"
    THEN HostCall("mkdirSync", dirPath, err, "threw", err)
    ELSE HostCall("mkdirSync", dirPath, err, "returned", NoError)

NextFileSystemHost ==
    \/ \E path \in HostPaths : \E err \in UnderlyingOutcomes(path) : delete(path, err)
    \/ \E path \in HostPaths : \E err \in UnderlyingOutcomes(path) : deleteSync(path, err)
    \/ \E path \in HostPaths : \E err \in UnderlyingOutcomes(path) : readDirSync(path, err)
    \/ \E path \in HostPaths : \E err \in UnderlyingOutcomes(path) : readFile(path, err)
    \/ \E path \in HostPaths : \E err \in UnderlyingOutcomes(path) : readFileSync(path, err)
    \/ \E path \in HostPaths : \E err \in UnderlyingOutcomes(path) : writeFileSync(path, err)
    \/ \E path \in HostPaths : \E err \in UnderlyingOutcomes(path) : mkdirSync(path, err)

\* One file, one target and script kind; every version and both snapshots,
\* of which the document caches hold the first.
RevisionInputs ==
    [paths |-> {PathA}, fileNames |-> {<<"\\", "a">>}, snapshots |-> ScriptSnapshots,
     targets |-> {"ES5"}, kinds |-> {"TS"}, versions |-> Versions,
     keys |-> BucketKeys, outcomes |-> ParserOutcomes]

\* Two files and both snapshots at one version, target and script kind.
ContentInputs ==
    [paths |-> StandardizedFilePaths, fileNames |-> {<<"\\", "a">>, <<"b">>},
     snapshots |-> ScriptSnapshots, targets |-> {"ES5"}, kinds |-> {"TS"},
     versions |-> {<<"1">>}, keys |-> {"defaultKey"}, outcomes |-> ParserOutcomes]

\* One file and snapshot, parsed without failure; every target and script kind.
SettingsInputs ==
    [paths |-> {PathA}, fileNames |-> {PathA}, snapshots |-> {TextOne},
     targets |-> ScriptTargets, kinds |-> ScriptKinds, versions |-> {<<"0">>, <<"1">>},
     keys |-> {"defaultKey"}, outcomes |-> {"ok"}]

\* One file, parsed without failure; both bucket keys, two versions.
KeyInputs ==
    [paths |-> {PathA}, fileNames |-> {<<"\\", "a">>}, snapshots |-> ScriptSnapshots,
     targets |-> {"ES5"}, kinds |-> {"TS"}, versions |-> {<<"0">>, <<"1">>},
     keys |-> BucketKeys, outcomes |-> {"ok"}]

Next == NextOver(RevisionInputs)

NextContent == NextOver(ContentInputs)

NextSettings == NextOver(SettingsInputs)

NextKeys == NextOver(KeyInputs)

Spec == Init /\ [][Next]_vars

SpecContent == Init /\ [][NextContent]_vars

SpecSettings == Init /\ [][NextSettings]_vars

SpecKeys == Init /\ [][NextKeys]_vars

\* A registry constructed without document caches.
InitNoCaches == Init /\ ~documentCaches.defined

SpecNoCaches == InitNoCaches /\ [][Next]_vars

\* The calls of a RealFileSystemHost, beside a registry that is not called.
SpecFileSystemHost == InitNoCaches /\ [][NextFileSystemHost]_vars

(***************************************************************************)
(* Properties.                                                             *)
(***************************************************************************)
Calls == {"createOrUpdateSourceFile", "acquireDocument"}

\* The number a revision string stands for, as getNextSourceFileVersion reads it.
RevisionNumber(version) == OrZero(parseInt(version))

OnlyCreateOrUpdate(h) == \A i \in 1..Len(h) : h[i].op = "createOrUpdateSourceFile"

OnlyParsed(h) == \A i \in 1..Len(h) : h[i].source = "parser"

CountsFromZero(h) == \A i \in 1..Len(h) : h[i].version = toString(i - 1)

\* C1, as claimed: for a fixed path that had no entry, the trees that N
\* successive createOrUpdateSourceFile calls return have the revisions
\* 0, 1, ..., N-1 in that order, whatever snapshots are supplied.
C1_MonotonicRevision ==
    \A f \in StandardizedFilePaths :
        OnlyCreateOrUpdate(history[f]) => CountsFromZero(history[f])

\* C1, amended: for a fixed path that had no entry, the trees that N
\* successive createOrUpdateSourceFile calls return have the revisions
\* 0, 1, ..., N-1 in that order, provided no document cache matched in any
\* of the calls (a matching cache's tree carries its own revision).
C1_MonotonicRevisionFromParser ==
    \A f \in StandardizedFilePaths :
        OnlyCreateOrUpdate(history[f]) /\ OnlyParsed(history[f]) => CountsFromZero(history[f])

\* Three successive createOrUpdateSourceFile calls on one path, all parsed.
C1_Witness ==
    \E f \in StandardizedFilePaths :
        /\ Len(history[f]) >= 3
        /\ OnlyCreateOrUpdate(history[f])
        /\ OnlyParsed(history[f])
        /\ history[f][3].version = <<"2">>

AfterRemove ==
    /\ previousCall.op = "removeSourceFile"
    /\ lastCall.op = "createOrUpdateSourceFile"
    /\ lastCall.fileName = previousCall.fileName
    /\ lastCall.outcome = "returned"

\* C2, as claimed: the createOrUpdateSourceFile that follows
\* removeSourceFile(path) returns a tree at the initial revision "0".
C2_ResetOnRemove ==
    AfterRemove => getSourceFileVersion(lastCall.result) = initialVersion

\* C2, amended: the createOrUpdateSourceFile that follows
\* removeSourceFile(path) finds no entry, asks the parser for version "0"
\* when no document cache matches, and then returns a tree at revision "0".
C2_ResetOnRemoveFromParser ==
    AfterRemove =>
        /\ lastCall.cached = NoSourceFile
        /\ lastCall.parsed =>
            /\ lastCall.parserVersion = initialVersion
            /\ getSourceFileVersion(lastCall.result) = initialVersion

\* An entry that had reached a later revision is removed and created again.
C2_Witness ==
    /\ AfterRemove
    /\ previousCall.cached # NoSourceFile
    /\ getSourceFileVersion(previousCall.cached) # initialVersion
    /\ lastCall.parsed
    /\ getSourceFileVersion(lastCall.result) = initialVersion

TwoAcquires ==
    /\ previousCall.op = "acquireDocument"
    /\ previousCall.outcome = "returned"
    /\ lastCall.op = "acquireDocument"
    /\ lastCall.fileName = previousCall.fileName

\* C3: two consecutive acquireDocument calls with the same path and version
\* return the same tree instance, and the second call does not parse: the
\* parser runs once, in the first call, when that call found no usable entry.
C3_IdempotentAcquire ==
    TwoAcquires /\ lastCall.version = previousCall.version =>
        /\ lastCall.outcome = "returned"
        /\ lastCall.result = previousCall.result
        /\ ~lastCall.parsed
        /\ previousCall.materialized => previousCall.parsed

\* C4: an acquireDocument call with a version other than that of the
\* acquireDocument call before it on the same path invokes the parser, and
\* the tree it returns is another instance, which is the path's entry.
C4_VersionChangeReparses ==
    TwoAcquires /\ lastCall.version # previousCall.version =>
        /\ lastCall.parsed
        /\ lastCall.outcome = "returned" =>
            /\ lastCall.result # previousCall.result
            /\ MapGet(sourceFileCacheByFilePath, lastCall.fileName) = lastCall.result

\* The indexes of the registered document caches that hold a document for
\* the arguments of the last call.
MatchingCaches ==
    IF documentCaches.defined
    THEN {i \in 1..Len(documentCaches.caches) :
            getDocumentIfMatch(documentCaches.caches[i], lastCall.fileName,
                               lastCall.scriptSnapshot, lastCall.target,
                               lastCall.scriptKind) # NoSourceFile}
    ELSE {}

RegisteredCaches == IF documentCaches.defined THEN Len(documentCaches.caches) ELSE 0

FirstMatchingCache == CHOOSE i \in MatchingCaches : \A j \in MatchingCaches : i <= j

UpTo(n) == [i \in 1..n |-> i]

\* C5: a call that materializes asks the document caches in registration
\* order; when some match, the tree returned and stored is the very record of
\* the first-registered matching cache, no later cache is asked and the
\* parser is not invoked.
C5_LookasidePriority ==
    lastCall.materialized /\ MatchingCaches # {} =>
        /\ lastCall.outcome = "returned"
        /\ lastCall.result =
              getDocumentIfMatch(documentCaches.caches[FirstMatchingCache], lastCall.fileName,
                                 lastCall.scriptSnapshot, lastCall.target, lastCall.scriptKind)
        /\ MapGet(sourceFileCacheByFilePath, lastCall.fileName) = lastCall.result
        /\ lastCall.queried = UpTo(FirstMatchingCache)
        /\ ~lastCall.parsed

\* Both registered caches match and the first one's record is returned.
C5_Witness ==
    /\ lastCall.materialized
    /\ Cardinality(MatchingCaches) >= 2
    /\ lastCall.queried = <<1>>
    /\ lastCall.result = getDocumentIfMatch(documentCaches.caches[1], lastCall.fileName,
                                            lastCall.scriptSnapshot, lastCall.target,
                                            lastCall.scriptKind)

C7_ContentMatch ==
    lastCall.op \in Calls /\ lastCall.outcome = "returned" =>
        lastCall.result.text = lastCall.scriptSnapshot

\* C7, amended: the tree returned by createOrUpdateSourceFile, or by an
\* acquireDocument call that finds no entry or an entry for which
\* getSourceFileVersion reports another version than the one requested, was
\* produced from the snapshot supplied in that call; an acquireDocument call
\* whose version is the one reported for the entry returns the entry,
\* whatever snapshot is supplied.
C7_ContentMatchOnMaterialize ==
    lastCall.op \in Calls /\ lastCall.outcome = "returned" =>
        IF \/ lastCall.op = "createOrUpdateSourceFile"
           \/ lastCall.cached = NoSourceFile
           \/ getSourceFileVersion(lastCall.cached) # lastCall.version
        THEN /\ lastCall.result.text = lastCall.scriptSnapshot
             /\ lastCall.result.fileName = lastCall.fileName
        ELSE lastCall.result = lastCall.cached

\* An entry parsed from one snapshot is replaced, on a version change, by a
\* tree of the other snapshot.
C7_Witness ==
    /\ lastCall.op = "acquireDocument"
    /\ lastCall.outcome = "returned"
    /\ lastCall.cached # NoSourceFile
    /\ lastCall.cached.text # lastCall.scriptSnapshot
    /\ getSourceFileVersion(lastCall.cached) # lastCall.version
    /\ lastCall.result.text = lastCall.scriptSnapshot

SettingsDiffer ==
    /\ lastCall.op = "acquireDocument"
    /\ lastCall.cached # NoSourceFile
    /\ \/ lastCall.cached.languageVersion # lastCall.target
       \/ lastCall.cached.scriptKind # lastCall.scriptKind

\* C8, as claimed: an acquireDocument call whose target or script kind
\* differs from the ones of the path's cached tree parses fresh and does not
\* return the cached tree.
C8_SettingsMatch ==
    SettingsDiffer => lastCall.parsed /\ lastCall.result # lastCall.cached

\* C8, amended: an acquireDocument call on a path with an entry reuses the
\* entry exactly when the requested version is the one getSourceFileVersion
\* reports for it, whatever the target and script kind; only a call with
\* another version materializes, and the tree it returns has the target and
\* script kind of that call.
C8_SettingsMatchOnVersionChange ==
    lastCall.op = "acquireDocument" /\ lastCall.cached # NoSourceFile =>
        /\ lastCall.materialized <=> getSourceFileVersion(lastCall.cached) # lastCall.version
        /\ ~lastCall.materialized =>
            lastCall.outcome = "returned" /\ lastCall.result = lastCall.cached
        /\ lastCall.materialized /\ lastCall.outcome = "returned" =>
            /\ lastCall.result.languageVersion = lastCall.target
            /\ lastCall.result.scriptKind = lastCall.scriptKind

\* The target or script kind changes together with the version, and the
\* tree returned is parsed with the new ones.
C8_Witness ==
    /\ SettingsDiffer
    /\ lastCall.materialized
    /\ lastCall.parsed
    /\ lastCall.outcome = "returned"
    /\ lastCall.result.languageVersion = lastCall.target
    /\ lastCall.result.scriptKind = lastCall.scriptKind

\* C9, as claimed: whenever a call replaces a path's entry by another tree,
\* the new tree's revision is greater than the replaced one's.
C9_RevisionInvariant ==
    /\ lastCall.op \in Calls
    /\ lastCall.outcome = "returned"
    /\ lastCall.cached # NoSourceFile
    /\ lastCall.result # lastCall.cached
    => RevisionNumber(getSourceFileVersion(lastCall.result))
         > RevisionNumber(getSourceFileVersion(lastCall.cached))

\* C9, amended: for a fixed path with no removeSourceFile in between, each
\* tree that createOrUpdateSourceFile obtains from the parser has a revision
\* greater than that of the tree returned for the path just before it, which
\* is the entry it replaces. (acquireDocument stores the caller's version and
\* a matching document cache its own record, whatever the entry's revision.)
C9_RevisionIncreasesOnCreateOrUpdate ==
    \A f \in StandardizedFilePaths : \A i \in 2..Len(history[f]) :
        history[f][i].op = "createOrUpdateSourceFile" /\ history[f][i].source = "parser" =>
            RevisionNumber(history[f][i].version) > RevisionNumber(history[f][i - 1].version)

\* createOrUpdateSourceFile parses a tree over an entry that acquireDocument
\* stored at version "1".
C9_Witness ==
    \E f \in StandardizedFilePaths : \E i \in 2..Len(history[f]) :
        /\ history[f][i].op = "createOrUpdateSourceFile"
        /\ history[f][i].source = "parser"
        /\ history[f][i - 1].op = "acquireDocument"
        /\ history[f][i - 1].version = <<"1">>
        /\ history[f][i].version = <<"2">>

\* C10: a call in which the parser throws throws what the parser threw and
\* leaves the whole map as it was before the call.
C10_ParserFailurePreservesState ==
    [][lastCall'.op \in Calls /\ lastCall'.outcome = "threw" =>
          /\ lastCall'.thrown \in ParserOutcomes \ {"ok"}
          /\ lastCall'.parsed
          /\ sourceFileCacheByFilePath' = sourceFileCacheByFilePath]_vars

\* The parser throws in a call on a path that has an entry, while another
\* path has one too; both entries are still there.
C10_Witness ==
    /\ lastCall.outcome = "threw"
    /\ lastCall.cached # NoSourceFile
    /\ MapGet(sourceFileCacheByFilePath, lastCall.fileName) = lastCall.cached
    /\ Cardinality(DOMAIN sourceFileCacheByFilePath) >= 2

\* A step that is a call of updateDocument, acquireDocumentWithKey or
\* updateDocumentWithKey with arguments of `inputs` is the step that
\* acquireDocument makes with the same fileName, settings, snapshot, version
\* and script kind: it returns the same tree and leaves the same state.
KeyIgnoredOver(inputs) ==
    \A fileName \in inputs.fileNames, compilationSettings \in [target : inputs.targets],
       scriptSnapshot \in inputs.snapshots, version \in inputs.versions,
       scriptKind \in inputs.kinds, parserOutcome \in inputs.outcomes :
        /\ updateDocument(fileName, compilationSettings, scriptSnapshot, version, scriptKind,
                          parserOutcome)
             => acquireDocument(fileName, compilationSettings, scriptSnapshot, version,
                                scriptKind, parserOutcome)
        /\ \A path \in inputs.paths, key \in inputs.keys :
            \/ acquireDocumentWithKey(fileName, path, compilationSettings, key, scriptSnapshot,
                                      version, scriptKind, parserOutcome)
            \/ updateDocumentWithKey(fileName, path, compilationSettings, key, scriptSnapshot,
                                     version, scriptKind, parserOutcome)
            => acquireDocument(fileName, compilationSettings, scriptSnapshot, version,
                               scriptKind, parserOutcome)

\* C11: from every state and for every bucket key and ts.Path argument,
\* acquireDocumentWithKey, updateDocumentWithKey and updateDocument return
\* the tree and leave the state that acquireDocument does with the same other
\* arguments, and getKeyForCompilationSettings returns the one key
\* "defaultKey" for every settings value.
C11_BucketKeyIgnored ==
    [][/\ KeyIgnoredOver(KeyInputs)
       /\ lastCall'.op = "getKeyForCompilationSettings" =>
            /\ lastCall'.value = "defaultKey"
            /\ \A settings \in CompilerOptions : BucketKeyFor(settings) = lastCall'.value]_vars

\* A call with the body of acquireDocument (which the calls of the WithKey
\* methods are) returns the entry that the call before it stored, after
\* getKeyForCompilationSettings or any other call has been made.
C11_Witness ==
    /\ calls = 3
    /\ previousCall.op = "acquireDocument"
    /\ previousCall.materialized
    /\ lastCall.op = "acquireDocument"
    /\ ~lastCall.materialized
    /\ lastCall.result = previousCall.result

\* C12: removeSourceFile(fileName) deletes the entry of fileName when there
\* is one and changes nothing when there is none; every other entry is what
\* it was, the parser is not invoked and no document cache is asked.
C12_RemoveOnlyThatEntry ==
    [][lastCall'.op = "removeSourceFile" =>
          /\ DOMAIN sourceFileCacheByFilePath'
                = DOMAIN sourceFileCacheByFilePath \ {lastCall'.fileName}
          /\ \A f \in DOMAIN sourceFileCacheByFilePath' :
                sourceFileCacheByFilePath'[f] = sourceFileCacheByFilePath[f]
          /\ lastCall'.fileName \notin DOMAIN sourceFileCacheByFilePath =>
                sourceFileCacheByFilePath' = sourceFileCacheByFilePath
          /\ lastCall'.outcome = "returned"
          /\ ~lastCall'.parsed
          /\ lastCall'.queried = <<>>
          /\ parserCalls' = parserCalls
          /\ documentCaches' = documentCaches]_vars

\* removeSourceFile was called on a path that had an entry while another
\* path had one too: the first is gone and the other is still there.
C12_Witness ==
    /\ lastCall.op = "removeSourceFile"
    /\ lastCall.cached # NoSourceFile
    /\ lastCall.fileName \notin DOMAIN sourceFileCacheByFilePath
    /\ DOMAIN sourceFileCacheByFilePath # {}

\* C13: releaseDocument and releaseDocumentWithKey change nothing, so the
\* entry that acquireDocument returned is, after a release, returned again
\* without materializing by acquireDocument with the same path and version.
C13_ReleaseKeepsCacheHit ==
    [][/\ lastCall'.op \in {"releaseDocument", "releaseDocumentWithKey"} =>
            /\ sourceFileCacheByFilePath' = sourceFileCacheByFilePath
            /\ parserCalls' = parserCalls
            /\ documentCaches' = documentCaches
       /\ /\ lastCall.op \in {"releaseDocument", "releaseDocumentWithKey"}
          /\ previousCall.op = "acquireDocument"
          /\ previousCall.outcome = "returned"
          /\ lastCall'.op = "acquireDocument"
          /\ lastCall'.fileName = previousCall.fileName
          /\ lastCall'.version = previousCall.version
          => /\ ~lastCall'.materialized
             /\ lastCall'.result = previousCall.result]_vars

Releases == {"releaseDocument", "releaseDocumentWithKey"}

\* C13, with the version that the registry reports for the entry:
\* releaseDocument and releaseDocumentWithKey change neither the map, the
\* document caches, the parser count nor what was returned so far, and after
\* any number of releases acquireDocument with the version that
\* getSourceFileVersion reports for the entry of the path returns that entry
\* without materializing.
C13_ReleaseKeepsReportedVersionHit ==
    [][/\ lastCall'.op \in Releases =>
            /\ sourceFileCacheByFilePath' = sourceFileCacheByFilePath
            /\ parserCalls' = parserCalls
            /\ documentCaches' = documentCaches
            /\ history' = history
            /\ lastCall'.outcome = "returned"
       /\ /\ lastCall.op \in Releases
          /\ lastCall'.op = "acquireDocument"
          /\ history[lastCall'.fileName] # <<>>
          /\ lastCall'.version
               = history[lastCall'.fileName][Len(history[lastCall'.fileName])].version
          => /\ ~lastCall'.materialized
             /\ lastCall'.result = lastCall'.cached
             /\ lastCall'.result # NoSourceFile
             /\ previousCall.op \in Calls /\ previousCall.outcome = "returned"
                  /\ previousCall.fileName = lastCall'.fileName
                  => lastCall'.result = previousCall.result]_vars

\* An entry is stored, a release follows, and acquireDocument then returns
\* the stored entry without materializing.
C13_Witness ==
    /\ previousCall.op \in Releases
    /\ lastCall.op = "acquireDocument"
    /\ ~lastCall.materialized
    /\ lastCall.outcome = "returned"
    /\ lastCall.result = lastCall.cached
    /\ lastCall.result # NoSourceFile

\* C14: in every state reportStats throws NotImplementedError, returns
\* nothing and leaves the map, the document caches and the parser count
\* unchanged.
C14_ReportStatsNotImplemented ==
    [][lastCall'.op = "reportStats" =>
          /\ lastCall'.outcome = "threw"
          /\ lastCall'.thrown = "NotImplementedError"
          /\ lastCall'.value = ""
          /\ sourceFileCacheByFilePath' = sourceFileCacheByFilePath
          /\ documentCaches' = documentCaches
          /\ parserCalls' = parserCalls
          /\ history' = history]_vars

\* reportStats threw on a registry that holds an entry.
C14_Witness ==
    /\ lastCall.op = "reportStats"
    /\ lastCall.outcome = "threw"
    /\ DOMAIN sourceFileCacheByFilePath # {}

\* The revision recorded on a tree, "0" standing for none.
RecordedRevision(sourceFile) ==
    IF sourceFile.version.defined THEN sourceFile.version.string ELSE <<"0">>

\* C15: getSourceFileVersion of a stored tree is the revision recorded on
\* it, "0" when none is recorded; so acquireDocument with version "0" on a
\* path whose entry records no revision returns the entry without
\* materializing.
C15_ReportedVersionIsRecorded ==
    /\ \A f \in DOMAIN sourceFileCacheByFilePath :
          getSourceFileVersion(sourceFileCacheByFilePath[f])
            = RecordedRevision(sourceFileCacheByFilePath[f])
    /\ /\ lastCall.op = "acquireDocument"
       /\ lastCall.cached # NoSourceFile
       /\ ~lastCall.cached.version.defined
       /\ lastCall.version = <<"0">>
       => /\ ~lastCall.materialized
          /\ lastCall.result = lastCall.cached

\* The revisions an entry can record within MaxCalls calls; -1 is the
\* revision of a document cache's record.
Revisions == -1..MaxCalls

\* C16: createOrUpdateSourceFile on a path whose entry records revision n,
\* with no document cache matching, invokes the parser with revision n + 1
\* and stores and returns a new tree of revision n + 1, whether or not the
\* snapshot is the text of the entry.
C16_UnconditionalBump ==
    \A n \in Revisions :
        /\ lastCall.op = "createOrUpdateSourceFile"
        /\ lastCall.cached # NoSourceFile
        /\ lastCall.cached.version = StringVersion(toString(n))
        /\ MatchingCaches = {}
        => /\ lastCall.parsed
           /\ lastCall.parserVersion = toString(n + 1)
           /\ lastCall.outcome = "returned" =>
                /\ lastCall.result.version = StringVersion(toString(n + 1))
                /\ lastCall.result.id # lastCall.cached.id
                /\ lastCall.result.text = lastCall.scriptSnapshot
                /\ MapGet(sourceFileCacheByFilePath, lastCall.fileName) = lastCall.result

\* createOrUpdateSourceFile was called with the very text of an entry that
\* acquireDocument stored with revision 1, and returned a new tree of
\* revision 2.
C16_Witness ==
    /\ lastCall.op = "createOrUpdateSourceFile"
    /\ previousCall.op = "acquireDocument"
    /\ lastCall.cached = previousCall.result
    /\ lastCall.cached.version = StringVersion(<<"1">>)
    /\ lastCall.cached.text = lastCall.scriptSnapshot
    /\ MatchingCaches = {}
    /\ lastCall.outcome = "returned"
    /\ lastCall.result.version = StringVersion(<<"2">>)
    /\ lastCall.result.id # lastCall.cached.id

\* The documents that the registered document caches hold for the arguments
\* of `call`.
CacheDocumentsFor(call) ==
    IF documentCaches.defined
    THEN {getDocumentIfMatch(documentCaches.caches[i], call.fileName, call.scriptSnapshot,
                             call.target, call.scriptKind) :
            i \in 1..Len(documentCaches.caches)} \ {NoSourceFile}
    ELSE {}

\* C17: a call that materializes while a document cache matches stores and
\* returns that cache's record as it is, with the revision the record
\* carries whatever version was requested or came next, does not invoke the
\* parser and leaves the document caches as they were.
C17_LookasideRecordStoredAsIs ==
    [][lastCall'.materialized /\ CacheDocumentsFor(lastCall') # {} =>
          /\ lastCall'.outcome = "returned"
          /\ lastCall'.result \in CacheDocumentsFor(lastCall')
          /\ lastCall'.fileName \in DOMAIN sourceFileCacheByFilePath'
          /\ sourceFileCacheByFilePath'[lastCall'.fileName] = lastCall'.result
          /\ ~lastCall'.parsed
          /\ lastCall'.parserVersion = <<>>
          /\ parserCalls' = parserCalls
          /\ documentCaches' = documentCaches]_vars

\* acquireDocument with version "1" and createOrUpdateSourceFile after it
\* (next version "0") both stored the record of revision -1 of a document
\* cache; the parser was never invoked.
C17_Witness ==
    /\ previousCall.op = "acquireDocument"
    /\ previousCall.version = <<"1">>
    /\ previousCall.result.version = StringVersion(<<"-", "1">>)
    /\ lastCall.op = "createOrUpdateSourceFile"
    /\ lastCall.result = previousCall.result
    /\ MapGet(sourceFileCacheByFilePath, lastCall.fileName) = lastCall.result
    /\ lastCall.result \in CacheDocumentsFor(lastCall)
    /\ parserCalls = 0

FileOperations == {"delete", "deleteSync", "readFile", "readFileSync"}

\* C18: delete, deleteSync, readFile and readFileSync fail with a
\* FileNotFoundError for their path, and readDirSync with a
\* DirectoryNotFoundError, exactly when the error of fs-extra is a not-exists
\* error; with any other error they fail with that very error, and with none
\* they do not fail.
C18_NotFoundTranslation ==
    lastCall.op \in FileOperations \cup {"readDirSync"} =>
        LET err == lastCall.underlying
            failed == lastCall.outcome \in {"threw", "rejected"}
            notFound == IF lastCall.op = "readDirSync"
                        THEN DirectoryNotFoundError(lastCall.path)
                        ELSE FileNotFoundError(lastCall.path)
        IN  /\ failed <=> err # NoError
            /\ lastCall.thrown = notFound <=> err # NoError /\ isNotExistsError(err)
            /\ lastCall.thrown.name \in {"FileNotFoundError", "DirectoryNotFoundError"}
                  => lastCall.thrown = notFound
            /\ err # NoError /\ ~isNotExistsError(err) => lastCall.thrown = err
            /\ ~failed => lastCall.thrown = NoError

\* deleteSync failed with the permission error of fs-extra itself and
\* readDirSync then failed with DirectoryNotFoundError on a not-exists error.
C18_Witness ==
    /\ previousCall.op = "deleteSync"
    /\ previousCall.underlying.code = "EACCES"
    /\ previousCall.thrown = previousCall.underlying
    /\ lastCall.op = "readDirSync"
    /\ lastCall.underlying.code = "ENOENT"
    /\ lastCall.outcome = "threw"
    /\ lastCall.thrown = DirectoryNotFoundError(lastCall.path)

\* C19: after a call of createOrUpdateSourceFile or of acquireDocument
\* (made directly or through updateDocument and the WithKey methods) that
\* returned, the map has an entry under the standardized path of the call,
\* which is the returned tree itself, and no entry under another spelling of
\* a path; after a call that threw, the entry of the path is the one found
\* when the call began.
C19_ReturnedTreeIsStored ==
    /\ DOMAIN sourceFileCacheByFilePath \subseteq StandardizedFilePaths
    /\ lastCall.op \in Calls =>
        /\ lastCall.fileName \in StandardizedFilePaths
        /\ lastCall.outcome = "returned" =>
            /\ lastCall.fileName \in DOMAIN sourceFileCacheByFilePath
            /\ sourceFileCacheByFilePath[lastCall.fileName] = lastCall.result
            /\ lastCall.result # NoSourceFile
        /\ lastCall.outcome # "returned" =>
            MapGet(sourceFileCacheByFilePath, lastCall.fileName) = lastCall.cached

\* A call replaced the entry of a path by another tree, which it returned,
\* while the other path has an entry too.
C19_Witness ==
    /\ lastCall.op \in Calls
    /\ lastCall.outcome = "returned"
    /\ lastCall.cached # NoSourceFile
    /\ lastCall.result # lastCall.cached
    /\ sourceFileCacheByFilePath[lastCall.fileName] = lastCall.result
    /\ DOMAIN sourceFileCacheByFilePath = StandardizedFilePaths

\* C20: a call of createOrUpdateSourceFile or of acquireDocument (made
\* directly or through updateDocument and the WithKey methods) leaves the
\* entry, and with it the revision, of every path other than its own
\* standardized path as it was, adds and removes no other entry, and changes
\* no entry at all when acquireDocument does not materialize.
C20_PerPathIsolation ==
    [][lastCall'.op \in Calls =>
          /\ DOMAIN sourceFileCacheByFilePath' \ {lastCall'.fileName}
                = DOMAIN sourceFileCacheByFilePath \ {lastCall'.fileName}
          /\ \A f \in DOMAIN sourceFileCacheByFilePath \ {lastCall'.fileName} :
                /\ sourceFileCacheByFilePath'[f] = sourceFileCacheByFilePath[f]
                /\ getSourceFileVersion(sourceFileCacheByFilePath'[f])
                      = getSourceFileVersion(sourceFileCacheByFilePath[f])
                /\ history'[f] = history[f]
          /\ ~lastCall'.materialized =>
                sourceFileCacheByFilePath' = sourceFileCacheByFilePath]_vars

\* A call changed the entry of its path while the other path kept the entry
\* that the call before had stored.
C20_Witness ==
    /\ lastCall.op \in Calls
    /\ previousCall.op \in Calls
    /\ previousCall.fileName # lastCall.fileName
    /\ previousCall.outcome = "returned"
    /\ lastCall.outcome = "returned"
    /\ lastCall.cached # NoSourceFile
    /\ lastCall.result # lastCall.cached
    /\ sourceFileCacheByFilePath[previousCall.fileName] = previousCall.result

====
